---- MODULE Spec2Model ----
(***************************************************************************)
(* A model of app.py, the Etsy SEO helper: the usage gate (per-day,        *)
(* per-email counter kept in usage_log.json, Pro allow-list kept in        *)
(* pro_users.json) and the title generator title_variations.               *)
(*                                                                         *)
(* Text is a sequence of tokens.  A token is one character (" ", a tab,    *)
(* "|", "-", ",", "@", ".", a letter) or a word of letters that the        *)
(* string operations of the program never look inside ("Gift",            *)
(* "Necklace").  Calendar days are numbered 1, 2, ...; the ISO string      *)
(* date.today().isoformat() names a day one to one.                        *)
(***************************************************************************)
EXTENDS Integers, Sequences, FiniteSets, TLC

VARIABLES
    proFile,      \* content of pro_users.json
    usageFile,    \* content of usage_log.json
    today,        \* the calendar day date.today() returns
    pc,           \* per session: where its script run stands
    typed,        \* per session: what the sidebar's email field holds, as a string
    email,        \* per session: that text, stripped and lowercased
    gen,          \* per session: whether this run is the Generate button's
    pro_active,   \* per session
    usage,        \* per session: the usage record the run loaded
    used,         \* per session
    out,          \* per session: the titles the run rendered
    gens,         \* history: free Generate runs that rendered output, per email, today
    startCount,   \* history: each email's counter when the day began
    startWithin,  \* history: no counter of the first record was past the limit
    overlapped,   \* history: a Generate run passed the gate while another stood there
    lost,         \* history: whose increments a write-back has discarded
    midRunTick,   \* history: the day changed while a run was in flight
    tin,          \* title generator: the listing input
    titles,       \* title generator: the returned list
    tpc           \* title generator: "input" or "done"

vars == <<proFile, usageFile, today, pc, typed, email, gen, pro_active, usage, used, out,
          gens, startCount, startWithin, overlapped, lost, midRunTick, tin, titles, tpc>>

gateVars == <<proFile, usageFile, today, pc, typed, email, gen, pro_active, usage, used, out,
              gens, startCount, startWithin, overlapped, lost, midRunTick>>

titleVars == <<tin, titles, tpc>>

(***************************************************************************)
(* Bounds                                                                  *)
(***************************************************************************)
\* longest field value the title generator is given, in tokens
MaxLen == 2
\* generations past the free limit after which a free email clicks no more
MaxExtra == 1
\* last calendar day of a behaviour
MaxDay == 2

(***************************************************************************)
(* Program constants                                                       *)
(***************************************************************************)
FREE_DAILY_LIMIT == 5

(***************************************************************************)
(* Text helpers                                                            *)
(***************************************************************************)
\* what Python's \s and str.strip() take for whitespace
Whitespace == {" ", "\t"}

Front(s) == SubSeq(s, 1, Len(s) - 1)

RECURSIVE LStrip(_, _)
LStrip(s, chars) ==
    IF s # <<>> /\ Head(s) \in chars THEN LStrip(Tail(s), chars) ELSE s

RECURSIVE RStrip(_, _)
RStrip(s, chars) ==
    IF s # <<>> /\ s[Len(s)] \in chars THEN RStrip(Front(s), chars) ELSE s

\* str.strip(chars)
Strip(s, chars) == RStrip(LStrip(s, chars), chars)

\* re.sub(r"\s+", " ", s)
RECURSIVE CollapseWs(_)
CollapseWs(s) ==
    IF s = <<>> THEN <<>>
    ELSE IF Head(s) \in Whitespace
         THEN <<" ">> \o CollapseWs(LStrip(s, Whitespace))
         ELSE <<Head(s)>> \o CollapseWs(Tail(s))

\* re.sub(r"\|\s*\|", "|", s): leftmost matches, none overlapping; the scan
\* goes on after the second pipe of a match
RECURSIVE CollapsePipes(_)
CollapsePipes(s) ==
    IF s = <<>> THEN <<>>
    ELSE IF Head(s) = "|"
         THEN LET rest == LStrip(Tail(s), Whitespace)
              IN  IF rest # <<>> /\ Head(rest) = "|"
                  THEN <<"|">> \o CollapsePipes(Tail(rest))
                  ELSE <<"|">> \o CollapsePipes(Tail(s))
         ELSE <<Head(s)>> \o CollapsePipes(Tail(s))

\* re.sub(r"\s+\|", " |", s)
RECURSIVE SpaceBeforePipe(_)
SpaceBeforePipe(s) ==
    IF s = <<>> THEN <<>>
    ELSE IF Head(s) \in Whitespace
         THEN LET rest == LStrip(s, Whitespace)
              IN  IF rest # <<>> /\ Head(rest) = "|"
                  THEN <<" ", "|">> \o SpaceBeforePipe(Tail(rest))
                  ELSE <<Head(s)>> \o SpaceBeforePipe(Tail(s))
         ELSE <<Head(s)>> \o SpaceBeforePipe(Tail(s))

\* re.sub(r"\|\s+", "| ", s)
RECURSIVE SpaceAfterPipe(_)
SpaceAfterPipe(s) ==
    IF s = <<>> THEN <<>>
    ELSE IF Head(s) = "|" /\ Tail(s) # <<>> /\ Head(Tail(s)) \in Whitespace
         THEN <<"|", " ">> \o SpaceAfterPipe(LStrip(Tail(s), Whitespace))
         ELSE <<Head(s)>> \o SpaceAfterPipe(Tail(s))

\* the tokens of s before its first separator token, and those after it
RECURSIVE UpTo(_, _)
UpTo(s, sep) ==
    IF s = <<>> \/ Head(s) = sep THEN <<>> ELSE <<Head(s)>> \o UpTo(Tail(s), sep)

RECURSIVE After(_, _)
After(s, sep) ==
    IF s = <<>> THEN <<>>
    ELSE IF Head(s) = sep THEN Tail(s) ELSE After(Tail(s), sep)

\* str.split(sep): always at least one part
RECURSIVE Split(_, _)
Split(s, sep) ==
    IF \E i \in 1..Len(s) : s[i] = sep
    THEN <<UpTo(s, sep)>> \o Split(After(s, sep), sep)
    ELSE <<s>>

Contains(s, tok) == \E i \in 1..Len(s) : s[i] = tok

\* the string a text spells: what a JSON object has for a key
RECURSIVE Join(_)
Join(s) == IF s = <<>> THEN "" ELSE Head(s) \o Join(Tail(s))

(***************************************************************************)
(* SEO template logic                                                      *)
(***************************************************************************)
\* the packs with "christmas" leading the Winter one: a variant to tell the
\* first entry of a pack from the others
SEASONAL_PACKS_ChristmasFirst ==
    [None   |-> <<>>,
     Spring |-> << <<"spring">>, <<"easter">>, <<"mother's", " ", "day">> >>,
     Summer |-> << <<"summer">>, <<"beach">>, <<"vacation">> >>,
     Autumn |-> << <<"fall">>, <<"autumn">>, <<"halloween">>, <<"thanksgiving">> >>,
     Winter |-> << <<"christmas">>, <<"winter">>, <<"new", " ", "year">> >>]

SEASONAL_PACKS ==
    [None   |-> <<>>,
     Spring |-> << <<"spring">>, <<"easter">>, <<"mother's", " ", "day">> >>,
     Summer |-> << <<"summer">>, <<"beach">>, <<"vacation">> >>,
     Autumn |-> << <<"fall">>, <<"autumn">>, <<"halloween">>, <<"thanksgiving">> >>,
     Winter |-> << <<"winter">>, <<"christmas">>, <<"new", " ", "year">> >>]

Seasons == DOMAIN SEASONAL_PACKS

clean_kw(s) == CollapseWs(Strip(s, Whitespace))

RECURSIVE DropEmpty(_)
DropEmpty(parts) ==
    IF parts = <<>> THEN <<>>
    ELSE IF Head(parts) = <<>> THEN DropEmpty(Tail(parts))
         ELSE <<Head(parts)>> \o DropEmpty(Tail(parts))

RECURSIVE CleanAll(_)
CleanAll(parts) ==
    IF parts = <<>> THEN <<>> ELSE <<clean_kw(Head(parts))>> \o CleanAll(Tail(parts))

split_keywords(s) == DropEmpty(CleanAll(Split(s, ",")))

\* season_kw of title_variations: SEASONAL_PACKS.get(season, [])[0], or ""
season_kw(season) ==
    LET seasonal == IF season \in Seasons THEN SEASONAL_PACKS[season] ELSE <<>>
    IN  IF seasonal # <<>> THEN seasonal[1] ELSE <<>>

\* the keyword slots kw1, kw2, kw3 of title_variations
KwSlots(main_kws) ==
    LET kws == DropEmpty(main_kws)
        top == IF Len(kws) >= 3 THEN SubSeq(kws, 1, 3) ELSE kws
    IN  [kw1 |-> IF Len(top) > 0 THEN top[1] ELSE <<>>,
         kw2 |-> IF Len(top) > 1 THEN top[2] ELSE <<>>,
         kw3 |-> IF Len(top) > 2 THEN top[3] ELSE <<>>]

\* the values str.format substitutes
Slots(product, main_kws, material, style, audience, occasion, personalization, color, season) ==
    [kw1 |-> KwSlots(main_kws).kw1, kw2 |-> KwSlots(main_kws).kw2,
     kw3 |-> KwSlots(main_kws).kw3,
     product |-> clean_kw(product), material |-> clean_kw(material),
     style |-> clean_kw(style), audience |-> clean_kw(audience),
     occasion |-> clean_kw(occasion), personalization |-> clean_kw(personalization),
     color |-> clean_kw(color), season |-> season_kw(season)]

\* the 8 templates, each already formatted with the slots v
templates(v) ==
    << v.kw1 \o <<" ">> \o v.product \o <<" ", "-", " ">> \o v.material \o <<" ">>
         \o v.style \o <<" ", "|", " ">> \o v.audience \o <<" ">> \o v.occasion,
       v.product \o <<" ">> \o v.kw1 \o <<" ">> \o v.kw2 \o <<" ", "|", " ">>
         \o v.personalization \o <<" ">> \o v.audience \o <<" ", "Gift">>,
       v.kw1 \o <<" ">> \o v.kw2 \o <<" ">> \o v.product \o <<" ", "|", " ">>
         \o v.color \o <<" ">> \o v.style \o <<" ", "-", " ", "Perfect", " ">>
         \o v.occasion,
       v.season \o <<" ">> \o v.kw1 \o <<" ">> \o v.product
         \o <<" ", "|", " ", "Unique", " ">> \o v.audience
         \o <<" ", "Gift", " ", "-", " ">> \o v.material,
       v.product \o <<" ", "|", " ">> \o v.kw1 \o <<" ">> \o v.style \o <<" ">>
         \o v.material \o <<" ", "-", " ">> \o v.occasion
         \o <<" ", "Gift", " ", "Idea">>,
       v.kw1 \o <<" ">> \o v.product \o <<" ", "|", " ">> \o v.personalization
         \o <<" ", "-", " ">> \o v.audience \o <<" ">> \o v.occasion
         \o <<" ", "Gift">>,
       v.kw1 \o <<" ">> \o v.kw2 \o <<" ">> \o v.product
         \o <<" ", "|", " ", "Handmade", " ">> \o v.style \o <<" ", "-", " ">>
         \o v.audience,
       v.product \o <<" ">> \o v.kw1 \o <<" ", "|", " ", "Premium", " ">>
         \o v.material \o <<" ", "-", " ">> \o v.color \o <<" ">> \o v.occasion >>

\* the cleanup of fill, applied to a formatted template
fill(t) ==
    Strip(SpaceAfterPipe(SpaceBeforePipe(CollapsePipes(Strip(CollapseWs(t), Whitespace)))),
          {" ", "-", "|"})

RECURSIVE Collect(_, _)
Collect(ts, acc) ==
    IF ts = <<>> THEN acc
    ELSE LET cand == fill(Head(ts))
         IN  IF cand # <<>> /\ ~(\E i \in 1..Len(acc) : acc[i] = cand)
             THEN Collect(Tail(ts), Append(acc, cand))
             ELSE Collect(Tail(ts), acc)

title_variations(product, main_kws, material, style, audience, occasion, personalization, color, season) ==
    LET found == Collect(templates(Slots(product, main_kws, material, style, audience,
                                         occasion, personalization, color, season)), <<>>)
    IN  SubSeq(found, 1, IF Len(found) < 8 THEN Len(found) ELSE 8)

(***************************************************************************)
(* JSON files.  A file is [missing |-> TRUE], [garbage |-> TRUE] (text     *)
(* json.loads rejects) or [json |-> v].  A JSON value v is [obj |-> f]     *)
(* (f a function from keys), [list |-> seq], [num |-> n], [str |-> text],  *)
(* [bool |-> b] or [null |-> TRUE].  The usage record's keys are day       *)
(* numbers and, under a day, the strings the emails spell; the allow-list  *)
(* holds its emails as texts, keys too.                                    *)
(***************************************************************************)
EmptyObj == [obj |-> <<>>]

IsObj(v) == "obj" \in DOMAIN v
IsList(v) == "list" \in DOMAIN v
IsStr(v) == "str" \in DOMAIN v

\* dict.get(key, default)
Get(v, key, default) == IF key \in DOMAIN v.obj THEN v.obj[key] ELSE default

\* d[key] = val
Put(v, key, val) == [obj |-> (key :> val) @@ v.obj]

_read_json(file, default) ==
    IF "json" \in DOMAIN file THEN file.json ELSE default

\* what _write_json leaves in the file
_write_json(data) == [json |-> data]

Upper == {"A", "B", "P"}
ToLower == [c \in Upper |-> CASE c = "A" -> "a" [] c = "B" -> "b" [] c = "P" -> "p"]
Letters == {"a", "b", "c", "i", "o", "p", "x"} \cup Upper
Digits == {"0", "1", "2", "3", "4", "5", "6", "7", "8", "9"}
DigitVal == [c \in Digits |->
    CASE c = "0" -> 0 [] c = "1" -> 1 [] c = "2" -> 2 [] c = "3" -> 3 [] c = "4" -> 4
      [] c = "5" -> 5 [] c = "6" -> 6 [] c = "7" -> 7 [] c = "8" -> 8 [] c = "9" -> 9]

\* str.lower()
RECURSIVE Lower(_)
Lower(s) ==
    IF s = <<>> THEN <<>>
    ELSE <<IF Head(s) \in Upper THEN ToLower[Head(s)] ELSE Head(s)>> \o Lower(Tail(s))

\* s.strip().lower()
Normalize(s) == Lower(Strip(s, Whitespace))

AllIn(s, from, to, class) == \A i \in from..to : s[i] \in class

\* re.match(r"^[A-Za-z0-9._%+-]+@[A-Za-z0-9.-]+\.[A-Za-z]{2,}$", email)
is_valid_email(raw) ==
    /\ raw # <<>>
    /\ LET e == Normalize(raw)
       IN  \E at \in 1..Len(e) : \E dot \in 1..Len(e) :
             /\ e[at] = "@" /\ e[dot] = "."
             /\ 1 < at /\ at + 1 < dot /\ dot + 2 <= Len(e)
             /\ AllIn(e, 1, at - 1, Letters \cup Digits \cup {".", "_", "%", "+", "-"})
             /\ AllIn(e, at + 1, dot - 1, Letters \cup Digits \cup {".", "-"})
             /\ AllIn(e, dot + 1, Len(e), Letters)

\* {f(x) for x in the list if x is a str}
StrItems(l) == {Join(Normalize(l[i].str)) : i \in {j \in 1..Len(l) : IsStr(l[j])}}

\* v is True or v == 1
IsTrueOrOne(v) ==
    \/ "bool" \in DOMAIN v /\ v.bool
    \/ "num" \in DOMAIN v /\ v.num = 1

load_pro_users(file) ==
    LET data == _read_json(file, EmptyObj)
    IN  IF IsObj(data) /\ <<"emails">> \in DOMAIN data.obj /\ IsList(data.obj[<<"emails">>])
        THEN StrItems(data.obj[<<"emails">>].list)
        ELSE IF IsObj(data)
        THEN {Join(Normalize(k)) : k \in {j \in DOMAIN data.obj : IsTrueOrOne(data.obj[j])}}
        ELSE IF IsList(data) THEN StrItems(data.list)
        ELSE {}

load_usage(file) == _read_json(file, EmptyObj)

save_usage(data) == _write_json(data)

\* date.today().isoformat(): the key of day d
today_key(d) == d

\* a call's outcome: its value, or that it raised
Ok(v) == [ok |-> TRUE, val |-> v]
Raised == [ok |-> FALSE]

RECURSIVE ParseDigits(_, _)
ParseDigits(s, acc) ==
    IF s = <<>> THEN acc ELSE ParseDigits(Tail(s), 10 * acc + DigitVal[Head(s)])

\* int(x) of a JSON value
IntOf(v) ==
    IF "num" \in DOMAIN v THEN Ok(v.num)
    ELSE IF "bool" \in DOMAIN v THEN Ok(IF v.bool THEN 1 ELSE 0)
    ELSE IF IsStr(v)
    THEN LET t == Strip(v.str, Whitespace)
         IN  IF t # <<>> /\ AllIn(t, 1, Len(t), Digits) THEN Ok(ParseDigits(t, 0))
             ELSE Raised
    ELSE Raised

get_free_used(u, mail, d) ==
    LET e == Join(Normalize(mail))
    IN  IF ~IsObj(u) THEN Raised
        ELSE LET day == Get(u, today_key(d), EmptyObj)
             IN  IF ~IsObj(day) THEN Raised
                 ELSE IntOf(Get(day, e, [num |-> 0]))

\* inc_free_used with a step of two: a variant to tell an increment by one
\* from any other change
inc_free_used_ByTwo(u, mail, d) ==
    LET e == Join(Normalize(mail))
        tk == today_key(d)
    IN  IF ~IsObj(u) THEN Raised
        ELSE LET u1 == IF tk \in DOMAIN u.obj THEN u ELSE Put(u, tk, EmptyObj)
                 day == u1.obj[tk]
             IN  IF ~IsObj(day) THEN Raised
                 ELSE LET n == IntOf(Get(day, e, [num |-> 0]))
                      IN  IF ~n.ok THEN Raised
                          ELSE Ok(Put(u1, tk, Put(day, e, [num |-> n.val + 2])))

inc_free_used(u, mail, d) ==
    LET e == Join(Normalize(mail))
        tk == today_key(d)
    IN  IF ~IsObj(u) THEN Raised
        ELSE LET u1 == IF tk \in DOMAIN u.obj THEN u ELSE Put(u, tk, EmptyObj)
                 day == u1.obj[tk]
             IN  IF ~IsObj(day) THEN Raised
                 ELSE LET n == IntOf(Get(day, e, [num |-> 0]))
                      IN  IF ~n.ok THEN Raised
                          ELSE Ok(Put(u1, tk, Put(day, e, [num |-> n.val + 1])))

(***************************************************************************)
(* The values the model draws from                                         *)
(***************************************************************************)
Sessions == {"s1", "s2"}

\* the session whose runs a behaviour without overlap follows
SeqSessions == {"s1"}

MailA == <<"a", "@", "x", ".", "i", "o">>
MailB == <<"b", "@", "x", ".", "i", "o">>
MailP == <<"p", "@", "x", ".", "i", "o">>
MailBob == <<"b", "o", "b">>

\* what a user may type in the email field
TypedEmails == {<<>>, MailBob, <<" ", "A", "@", "x", ".", "i", "o">>, MailB, MailP}

\* the keys of the emails that pass the gate's format check
Keys == {Join(Normalize(t)) : t \in {r \in TypedEmails : is_valid_email(r)}}

KeyA == Join(MailA)
KeyB == Join(MailB)
KeyP == Join(MailP)

EmptyInput ==
    [product |-> <<>>, keywords |-> <<>>, material |-> <<>>, style |-> <<>>,
     audience |-> <<>>, occasion |-> <<>>, personalization |-> <<>>, color |-> <<>>,
     season |-> "None"]

NecklaceInput ==
    [EmptyInput EXCEPT !.product = <<"Necklace">>,
                       !.keywords = <<"dainty", ",", " ", "gift", " ", "for", " ", "her">>,
                       !.season = "Winter"]

PlainInput == [EmptyInput EXCEPT !.product = <<"a">>, !.keywords = <<"b">>]

\* lines 393-405: split_keywords, then title_variations
TitlesOf(inp) ==
    title_variations(inp.product, split_keywords(inp.keywords), inp.material, inp.style,
                     inp.audience, inp.occasion, inp.personalization, inp.color,
                     inp.season)

\* the titles of the form as it starts, every field empty: what the model's
\* Generate runs render
FormTitles == TitlesOf(EmptyInput)

Num(n) == [num |-> n]
Str(t) == [str |-> t]
Obj(f) == [obj |-> f]

\* {"p@x.io": true, "a@x.io": false, "bob": 1}
ProMap ==
    [json |-> Obj((MailP :> [bool |-> TRUE]) @@ (MailA :> [bool |-> FALSE])
                  @@ (MailBob :> Num(1)))]

ProFiles ==
    { [missing |-> TRUE],
      [garbage |-> TRUE],
      [json |-> Obj(<<"emails">> :> [list |-> <<Str(<<" ", "P", "@", "x", ".", "i", "o">>), Num(7)>>])],
      ProMap,
      [json |-> [list |-> <<Str(MailP)>>]],
      [json |-> Num(5)] }

\* a record with every day's counters one short of the limit or at it
NearLimit(lastDay) ==
    [json |-> Obj([d \in 1..lastDay |->
        IF d = 1 THEN Obj((KeyA :> Num(4)) @@ (KeyB :> Num(4)) @@ (KeyP :> Num(5)))
        ELSE Obj((KeyA :> Num(5)) @@ (KeyB :> Num(4)))])]

\* counters past the limit, and one stored as a string
OverLimit(lastDay) ==
    [json |-> Obj([d \in 1..lastDay |->
        Obj((KeyA :> Num(6)) @@ (KeyB :> Str(<<"4">>)) @@ (KeyP :> Num(7)))])]

\* records of an unexpected shape: a list, a number under a date, a count
\* that is no number
BadShapes(lastDay) ==
    { [json |-> [list |-> <<>>]],
      [json |-> Obj([d \in 1..lastDay |-> Num(5)])],
      [json |-> Obj([d \in 1..lastDay |->
            Obj((KeyA :> Str(<<"a", "b", "c">>)) @@ (KeyB :> Num(4)))])] }

\* the files and the day a behaviour of overlapping runs starts from
InitFiles ==
    {<<ProMap, uf, 1>> :
        uf \in {NearLimit(MaxDay), OverLimit(MaxDay)} \cup BadShapes(MaxDay)}

\* the files and the day a behaviour of runs one after the other starts from:
\* a record that holds nothing of the last day starts on it or the day before
InitFilesSeq ==
    {<<pf, NearLimit(MaxDay), 1>> : pf \in ProFiles}
      \cup {<<ProMap, uf, MaxDay>> : uf \in {[missing |-> TRUE], [garbage |-> TRUE]}}
      \cup {<<ProMap, NearLimit(MaxDay - 1), MaxDay - 1>>}
      \cup {<<ProMap, [json |-> Obj(MaxDay :> Obj(KeyB :> Num(3)))], MaxDay>>}
      \cup {<<ProMap, uf, 1>> : uf \in {OverLimit(MaxDay)} \cup BadShapes(MaxDay)}

Unread == [unread |-> TRUE]
Undefined == 0 - 1

\* the counter of key e on day d in record u (Undefined: reading it raises)
CountIn(u, e, d) ==
    IF ~IsObj(u) THEN Undefined
    ELSE LET day == Get(u, today_key(d), EmptyObj)
         IN  IF ~IsObj(day) THEN Undefined
             ELSE LET n == IntOf(Get(day, e, Num(0)))
                  IN  IF n.ok THEN n.val ELSE Undefined

\* the same, as a run starting now would read it from the file
CountOf(file, e, d) == CountIn(load_usage(file), e, d)

\* no counter of the file is past the free limit
AllWithin(file) ==
    \A d \in 1..MaxDay : \A e \in Keys : CountOf(file, e, d) <= FREE_DAILY_LIMIT

InFlight(s) == pc[s] = "gated"

(***************************************************************************)
(* The usage gate.  A session is one browser tab; each user action reruns  *)
(* the script.  pc is "idle" before the first run, "gated" while a         *)
(* Generate run stands between the gate and its write-back, and otherwise  *)
(* says how the last run ended: "invalid" (line 355), "error" (an          *)
(* exception), "limit" (line 363), "rendered" (no Generate) or             *)
(* "generated".  A run that has ended keeps no usage record.               *)
(***************************************************************************)
InitGate(pf, uf, d) ==
    /\ proFile = pf
    /\ usageFile = uf
    /\ today = d
    /\ pc = [s \in Sessions |-> "idle"]
    /\ typed = [s \in Sessions |-> ""]
    /\ email = [s \in Sessions |-> <<>>]
    /\ gen = [s \in Sessions |-> FALSE]
    /\ pro_active = [s \in Sessions |-> FALSE]
    /\ usage = [s \in Sessions |-> Unread]
    /\ used = [s \in Sessions |-> Undefined]
    /\ out = [s \in Sessions |-> <<>>]
    /\ gens = [e \in Keys |-> 0]
    /\ startCount = [e \in Keys |-> CountOf(uf, e, d)]
    /\ startWithin = AllWithin(uf)
    /\ overlapped = FALSE
    /\ lost = {}
    /\ midRunTick = FALSE

InitTitleIdle ==
    /\ tin = EmptyInput
    /\ titles = <<>>
    /\ tpc = "idle"

\* line 353: the email block
EmailBlocked(mail) == mail = <<>> \/ ~is_valid_email(mail)

\* the limit's test with > for >=: a variant to tell the fifth generation
\* from the sixth
LimitReached_Above(pro, n) == (~pro) /\ n > FREE_DAILY_LIMIT

\* line 361: the free limit's test
LimitReached(pro, n) == (~pro) /\ n >= FREE_DAILY_LIMIT

\* lines 332-363 of one script run of session s, with raw in the email
\* field; g: the run is the Generate button's
Run(s, raw, g) ==
    LET pro_users == load_pro_users(proFile)
        mail == Normalize(raw)
        pro == mail # <<>> /\ Join(mail) \in pro_users
        blocked == EmailBlocked(mail)
        record == load_usage(usageFile)
        n == get_free_used(record, mail, today)
        to == IF blocked THEN "invalid"
              ELSE IF ~n.ok THEN "error"
              ELSE IF LimitReached(pro, n.val) THEN "limit"
              ELSE IF g THEN "gated" ELSE "rendered"
    IN  /\ typed' = [typed EXCEPT ![s] = Join(raw)]
        /\ email' = [email EXCEPT ![s] = mail]
        /\ gen' = [gen EXCEPT ![s] = g]
        /\ pro_active' = [pro_active EXCEPT ![s] = pro]
        /\ out' = [out EXCEPT ![s] = <<>>]
        /\ usage' = [usage EXCEPT ![s] = IF to = "gated" THEN record ELSE Unread]
        /\ used' = [used EXCEPT ![s] = IF to = "gated" THEN n.val ELSE Undefined]
        /\ pc' = [pc EXCEPT ![s] = to]
        /\ overlapped' = (overlapped \/ (to = "gated" /\ \E t \in Sessions \ {s} : InFlight(t)))
        /\ UNCHANGED <<proFile, usageFile, today, gens, startCount, startWithin, lost,
                       midRunTick>>
        /\ UNCHANGED titleVars

\* the user edits the email field (or any other field): a rerun without
\* Generate
EditEmail(s) ==
    /\ ~InFlight(s)
    /\ \E raw \in TypedEmails : Run(s, raw, FALSE)

\* the user clicks Generate, which the last run rendered (line 390)
ClickGenerate(s) ==
    /\ pc[s] \in {"rendered", "generated"}
    /\ \/ pro_active[s]
       \/ startCount[Join(email[s])] + gens[Join(email[s])] < FREE_DAILY_LIMIT + MaxExtra
    /\ \E raw \in TypedEmails : Join(raw) = typed[s] /\ Run(s, raw, TRUE)

\* whose increments the write-back of record new by the run of key e discards:
\* its own email's ("same"), another email's or day's ("other")
Discards(new, e) ==
    (IF CountOf(usageFile, e, today) >= CountIn(new, e, today) THEN {"same"} ELSE {})
      \cup
    (IF \E c \in 1..MaxDay, k \in Keys :
            /\ <<c, k>> # <<today, e>>
            /\ CountOf(usageFile, k, c) > CountIn(new, k, c)
     THEN {"other"} ELSE {})

\* lines 392-431 of the Generate run of session s
Generate(s) ==
    /\ pc[s] = "gated"
    /\ LET r == inc_free_used(usage[s], email[s], today)
           n == get_free_used(r.val, email[s], today)
       IN  IF pro_active[s]
           THEN /\ pc' = [pc EXCEPT ![s] = "generated"]
                /\ out' = [out EXCEPT ![s] = FormTitles]
                /\ used' = [used EXCEPT ![s] = Undefined]
                /\ UNCHANGED <<usageFile, gens, lost>>
           ELSE IF ~r.ok
           THEN /\ pc' = [pc EXCEPT ![s] = "error"]
                /\ used' = [used EXCEPT ![s] = Undefined]
                /\ UNCHANGED <<out, usageFile, gens, lost>>
           ELSE /\ usageFile' = save_usage(r.val)
                /\ used' = [used EXCEPT ![s] = IF n.ok THEN n.val ELSE Undefined]
                /\ pc' = [pc EXCEPT ![s] = "generated"]
                /\ out' = [out EXCEPT ![s] = FormTitles]
                /\ gens' = [gens EXCEPT ![Join(email[s])] = @ + 1]
                /\ lost' = lost \cup Discards(r.val, Join(email[s]))
    /\ usage' = [usage EXCEPT ![s] = Unread]
    /\ UNCHANGED <<proFile, today, typed, email, gen, pro_active, startCount, startWithin,
                   overlapped, midRunTick>>
    /\ UNCHANGED titleVars

\* midnight: date.today() moves on
Tick ==
    /\ today < MaxDay
    /\ today' = today + 1
    /\ gens' = [e \in Keys |-> 0]
    /\ startCount' = [e \in Keys |-> CountOf(usageFile, e, today + 1)]
    /\ midRunTick' = (midRunTick \/ \E s \in Sessions : InFlight(s))
    /\ UNCHANGED <<proFile, usageFile, pc, typed, email, gen, pro_active, usage, used, out,
                   startWithin, overlapped, lost>>
    /\ UNCHANGED titleVars

Init == (\E f \in InitFiles : InitGate(f[1], f[2], f[3])) /\ InitTitleIdle

Next ==
    \/ \E s \in Sessions : EditEmail(s)
    \/ \E s \in Sessions : ClickGenerate(s)
    \/ \E s \in Sessions : Generate(s)
    \/ Tick

\* any interleaving of the sessions' runs
Spec == Init /\ [][Next]_vars

Quiet == \A s \in Sessions : ~InFlight(s)

SeqEditEmail(s) == Quiet /\ EditEmail(s)
SeqClickGenerate(s) == Quiet /\ ClickGenerate(s)
SeqTick == Quiet /\ Tick

NextSeq ==
    \/ \E s \in SeqSessions : SeqEditEmail(s)
    \/ \E s \in SeqSessions : SeqClickGenerate(s)
    \/ \E s \in SeqSessions : Generate(s)
    \/ SeqTick

InitSeq == (\E f \in InitFilesSeq : InitGate(f[1], f[2], f[3])) /\ InitTitleIdle

\* no two runs overlap, and the day changes between runs only
SpecSeq == InitSeq /\ [][NextSeq]_vars

(***************************************************************************)
(* The title generator on its own: one call of lines 393-405 on a listing  *)
(***************************************************************************)
FieldChars == {"a", " ", "\t", "|", "-", ","}

\* every text of at most MaxLen of these characters
FieldValues == UNION {[1..n -> FieldChars] : n \in 0..MaxLen}

TextFields ==
    {"product", "keywords", "material", "style", "audience", "occasion",
     "personalization", "color"}

\* each of three listings, with one field or the season set to each value
TitleInputs ==
    LET bases == {EmptyInput, NecklaceInput, PlainInput}
    IN  {[b EXCEPT ![f] = v] : b \in bases, f \in TextFields, v \in FieldValues}
          \cup {[b EXCEPT !.season = se] : b \in bases, se \in Seasons}

InitTitle ==
    /\ InitGate(ProMap, NearLimit(MaxDay), 1)
    /\ tin \in TitleInputs
    /\ titles = <<>>
    /\ tpc = "input"

TitleCall ==
    /\ tpc = "input"
    /\ titles' = TitlesOf(tin)
    /\ tpc' = "done"
    /\ UNCHANGED <<tin>>
    /\ UNCHANGED gateVars

NextTitle == TitleCall

SpecTitle == InitTitle /\ [][NextTitle]_vars

(***************************************************************************)
(* Properties of the title generator, checked under SpecTitle               *)
(***************************************************************************)
TitleDone == tpc = "done"

TitleSet == {titles[i] : i \in 1..Len(titles)}

\* a pipe followed, after any blanks, by another pipe
HasDoubledPipe(t) ==
    \E i \in 1..Len(t), j \in 1..Len(t) :
        /\ i < j
        /\ t[i] = "|"
        /\ t[j] = "|"
        /\ \A k \in (i + 1)..(j - 1) : t[k] \in Whitespace

Separators == Whitespace \cup {"-", "|"}

HasEdgeSeparator(t) == t # <<>> /\ (t[1] \in Separators \/ t[Len(t)] \in Separators)

\* C6: a listing whose every text field is empty, with no keywords and no
\* season, gets an empty list of titles.
C6_EmptyInputNoTitles == (TitleDone /\ tin = EmptyInput) => titles = <<>>

\* C7 as stated: for product "Necklace", keywords "dainty, gift for her" and
\* season Winter the seasonal keyword slot is "christmas" and some title
\* contains "christmas".
C7_SlotIsChristmas ==
    (TitleDone /\ tin = NecklaceInput) =>
        /\ season_kw(tin.season) = <<"christmas">>
        /\ \E t \in TitleSet : Contains(t, "christmas")

\* C7: for product "Necklace", keywords "dainty, gift for her" and season
\* Winter the seasonal keyword slot is "winter", the first entry of the Winter
\* pack, and some title contains "winter".
C7_SlotIsWinter ==
    (TitleDone /\ tin = NecklaceInput) =>
        /\ season_kw(tin.season) = <<"winter">>
        /\ \E t \in TitleSet : Contains(t, "winter")

C7_Witness == TitleDone /\ tin = NecklaceInput /\ Len(titles) = 8

\* C8: no title contains a doubled pipe separator, and no title begins or
\* ends with a blank, a hyphen or a pipe, whatever the input fields hold.
C8_TitlesClean ==
    TitleDone => \A t \in TitleSet : ~HasDoubledPipe(t) /\ ~HasEdgeSeparator(t)

(***************************************************************************)
(* Properties of the usage gate                                            *)
(***************************************************************************)
ProUsers == load_pro_users(proFile)

\* the step is a script run of session s from its start to the gate
RunStep(s) ==
    /\ pc[s] # "gated"
    /\ <<pc'[s], typed'[s], gen'[s]>> # <<pc[s], typed[s], gen[s]>>

\* the step is the run of a click on Generate
ClickStep(s) == RunStep(s) /\ gen'[s]

\* the step is the rest of a Generate run, from the gate to its end
GenStep(s) == pc[s] = "gated" /\ pc'[s] # "gated"

\* C1: with runs one after the other on one day, a free email whose counter
\* was absent or 0 generates on each of its first 5 requests, which leave the
\* counter at the number of generations made, and is refused on every later
\* request of the day, which changes nothing.
C1_FiveThenRefused ==
    [][\A s \in Sessions :
          LET e == Join(email'[s])
          IN  (~EmailBlocked(email'[s]) /\ ~pro_active'[s] /\ startCount[e] = 0) =>
                /\ ClickStep(s) =>
                     IF gens[e] < FREE_DAILY_LIMIT
                     THEN pc'[s] = "gated"
                     ELSE pc'[s] = "limit" /\ out'[s] = <<>> /\ usageFile' = usageFile
                /\ GenStep(s) =>
                     /\ pc'[s] = "generated"
                     /\ out'[s] # <<>>
                     /\ gens'[e] = gens[e] + 1
                     /\ gens'[e] <= FREE_DAILY_LIMIT
                     /\ CountOf(usageFile', e, today) = gens'[e]]_vars

C1_Witness ==
    \E s \in Sessions :
        /\ pc[s] = "limit"
        /\ gen[s]
        /\ ~pro_active[s]
        /\ startCount[Join(email[s])] = 0
        /\ gens[Join(email[s])] = FREE_DAILY_LIMIT
        /\ CountOf(usageFile, Join(email[s]), today) = FREE_DAILY_LIMIT

\* C2: a request whose email is in the Pro list is never blocked and always
\* generates, whatever the usage record holds, and changes no counter.
C2_ProNeverBlocked ==
    [][\A s \in Sessions :
          (email'[s] # <<>> /\ Join(email'[s]) \in ProUsers) =>
              /\ pc'[s] \in {"rendered", "gated", "generated"}
              /\ GenStep(s) => usageFile' = usageFile]_vars

\* C3: a run blocked for an empty or invalid email, or for a free email whose
\* counter of the day is 5 or more, renders no titles and leaves the usage
\* file as it was; the email block comes before the usage record is read.
C3_BlockedChangesNothing ==
    [][\A s \in Sessions :
          RunStep(s) =>
              LET e == Join(email'[s])
              IN  /\ EmailBlocked(email'[s]) =>
                        pc'[s] = "invalid" /\ usage'[s] = Unread /\ used'[s] = Undefined
                  /\ (/\ ~EmailBlocked(email'[s])
                      /\ ~pro_active'[s]
                      /\ CountOf(usageFile, e, today) >= FREE_DAILY_LIMIT) =>
                        pc'[s] = "limit"
                  /\ pc'[s] \in {"invalid", "limit"} =>
                        /\ out'[s] = <<>>
                        /\ usageFile' = usageFile]_vars

C3_Witness ==
    \E s, t \in Sessions :
        /\ pc[s] = "invalid" /\ out[s] = <<>>
        /\ pc[t] = "limit" /\ gen[t] /\ out[t] = <<>>
        /\ CountOf(usageFile, Join(email[t]), today) >= FREE_DAILY_LIMIT

\* C4: whatever the usage file and the Pro file hold, no run ends in an
\* exception.
C4_NoRunRaises == \A s \in Sessions : pc[s] # "error"

\* the generations of the day that key e's counter does not show
Missing(e) == startCount[e] + gens[e] - CountOf(usageFile, e, today)

Readable(e) == startCount[e] # Undefined /\ CountOf(usageFile, e, today) # Undefined

\* C5: runs that overlap can lose an increment, of the same email or of
\* another one, which lets a free email past 5 generations a day; a counter
\* never shows more generations than were made, and it shows fewer only after
\* a write-back of a run that passed the gate while another stood there.
C5_LostOnlyByOverlap ==
    /\ lost # {} => overlapped
    /\ \A e \in Keys :
          Readable(e) => Missing(e) >= 0 /\ (Missing(e) > 0 => lost # {})

C5_Witness ==
    /\ lost = {"same", "other"}
    /\ \E e \in Keys \ ProUsers :
          /\ Readable(e)
          /\ Missing(e) > 0
          /\ startCount[e] + gens[e] > FREE_DAILY_LIMIT

\* C9: with runs one after the other, a free run that generates changes one
\* entry of the usage file, the one of today and of its email, to its old
\* value (0 if the day or the email had none) plus 1; every other entry stays,
\* and the count the run then reports is the one a fresh read gives.
C9_OneEntryPlusOne ==
    [][\A s \in Sessions :
          (GenStep(s) /\ pc'[s] = "generated" /\ ~pro_active[s]) =>
              LET e == Join(email[s])
                  old == load_usage(usageFile)
                  new == load_usage(usageFile')
                  oldDay == Get(old, today_key(today), EmptyObj)
                  newDay == Get(new, today_key(today), EmptyObj)
                  before == IntOf(Get(oldDay, e, Num(0)))
              IN  /\ IsObj(old) /\ IsObj(new) /\ IsObj(oldDay) /\ IsObj(newDay)
                  /\ before.ok
                  /\ DOMAIN new.obj = DOMAIN old.obj \cup {today_key(today)}
                  /\ \A d \in DOMAIN old.obj \ {today_key(today)} : new.obj[d] = old.obj[d]
                  /\ DOMAIN newDay.obj = DOMAIN oldDay.obj \cup {e}
                  /\ \A k \in DOMAIN oldDay.obj \ {e} : newDay.obj[k] = oldDay.obj[k]
                  /\ newDay.obj[e] = Num(before.val + 1)
                  /\ used'[s] = before.val + 1
                  /\ used'[s] = CountOf(usageFile', e, today)]_vars

C9_Witness ==
    \E s \in Sessions :
        /\ pc[s] = "generated"
        /\ ~pro_active[s]
        /\ used[s] = 1
        /\ CountOf(usageFile, Join(email[s]), today) = 1
        /\ \E k \in Keys \ {Join(email[s])} : CountOf(usageFile, k, today) > 0

\* C10: if no counter of the first usage record is above 5 and no run
\* straddles a change of the date, no counter of the usage file is ever above
\* 5, overlapping runs and lost increments included.
C10_NeverPastLimit == (startWithin /\ ~midRunTick) => AllWithin(usageFile)

C10_Witness ==
    /\ startWithin
    /\ ~midRunTick
    /\ lost # {}
    /\ \E e \in Keys \ ProUsers :
          /\ CountOf(usageFile, e, today) = FREE_DAILY_LIMIT
          /\ startCount[e] + gens[e] > FREE_DAILY_LIMIT

====
